---- MODULE Spec2Model ----
(***************************************************************************)
(* The in-memory object hierarchy of server/src/coredb/memstore.rs:        *)
(* a Memstore owning a Coremap of keyspace-id -> Arc<Keyspace>, each       *)
(* Keyspace owning a Coremap of table-id -> Arc<Table>.  Client threads    *)
(* create, look up, release and drop entries concurrently.                 *)
(*                                                                         *)
(* Coremap (coredb/htable.rs) is modelled from its contract: get,          *)
(* contains_key, true_if_insert, true_remove_if and remove are each one    *)
(* atomic step on one key.  Arc is modelled by an explicit strong count:   *)
(* clone adds one, dropping a handle subtracts one, and the value is       *)
(* destroyed (its fields dropped) when the count reaches zero.             *)
(***************************************************************************)
EXTENDS Integers, FiniteSets, Sequences, TLC

\* ------------------------------------------------------------------ bounds
NumThreads == 2      \* client threads calling into the store
MaxKsHeld == 1       \* Arc<Keyspace> clones one thread holds at a time
MaxTblHeld == 1      \* Arc<Table> clones one thread holds at a time
NumKsObj == 3        \* keyspace allocations alive at once
NumTblObj == 2       \* table allocations alive at once
MaxCalls == 2        \* create_keyspace calls of one thread in the create race

Threads == 1..NumThreads
KsObjs == 1..NumKsObj
TblObjs == 1..NumTblObj
None == 0            \* Option::None / no allocation

\* ------------------------------------------------------------- identifiers
DEFAULT == "default"
SYSTEM == "system"
APPS == "apps"
KsIds == {DEFAULT, SYSTEM, APPS}
TblIds == {DEFAULT, APPS}

VARIABLES
    keyspaces,    \* Memstore.keyspaces : KsIds -> keyspace allocation or None
    tables,       \* Keyspace.tables of each keyspace allocation
    ks_strong,    \* Arc<Keyspace> strong count of each allocation (0 = free)
    tbl_strong,   \* Arc<Table> strong count of each allocation (0 = free)
    ks_held,      \* ks_held[t][o]: Arc<Keyspace> clones thread t holds
    tbl_held,     \* tbl_held[t][x]: Arc<Table> clones thread t holds
    pc,           \* where each thread is inside a drop_* call
    last,         \* the call step taken last and what it returned
    ks_live,      \* history: id |-> a create returned true (or the constructor
                  \*   inserted it) and no drop has returned Ok since
    tbl_live,     \* history: the same per keyspace allocation and table id
    lin,          \* history: the sequential executions of the calls on the
                  \*   keyspace `apps` that agree with every value returned
    race,         \* history: the calls and results of the create race
    snap_config,  \* Memstore.snap_config : "None" or "Some"
    preload_lock, \* Memstore.preload_lock : TRUE when locked
    partmap_lock, \* Keyspace.partmap_lock of each keyspace allocation
    preload_guard,  \* preload_guard[t]: thread t holds the guard of preload_lock
    partmap_guard,  \* partmap_guard[t][o]: t holds the QLGuard of o's partmap_lock
    buf,          \* the byte buffer handed to Lexer::lex
    cursor,       \* Lexer.cursor, as its offset from the start of buf
    tokens,       \* Lexer.tokens
    last_error,   \* Lexer.last_error : "None" or the LangError
    lex_pc,       \* where Lexer::lex is: "idle", "lex" (in the loop), "done"
    lex_result,   \* what Lexer::lex returned
    oob           \* a deref_cursor happened with cursor at or past end_ptr

core == <<keyspaces, tables, ks_strong, tbl_strong, ks_held, tbl_held, pc>>
hist == <<ks_live, tbl_live>>
locks == <<preload_lock, partmap_lock, preload_guard, partmap_guard>>
lexer == <<buf, cursor, tokens, last_error, lex_pc, lex_result, oob>>
aux == <<lin, race, snap_config, locks, lexer>>
vars == <<keyspaces, tables, ks_strong, tbl_strong, ks_held, tbl_held, pc, last,
          ks_live, tbl_live, lin, race, snap_config, preload_lock, partmap_lock,
          preload_guard, partmap_guard,
          buf, cursor, tokens, last_error, lex_pc, lex_result, oob>>

\* ------------------------------------------------------------------ helpers
Min(S) == CHOOSE x \in S : \A y \in S : x <= y

RECURSIVE SumOver(_, _)
SumOver(f, S) ==
    IF S = {} THEN 0
    ELSE LET x == Min(S) IN f[x] + SumOver(f, S \ {x})

\* number of handles thread t holds
KsHeldBy(t) == SumOver(ks_held[t], KsObjs)
TblHeldBy(t) == SumOver(tbl_held[t], TblObjs)

\* handles to one allocation over all threads
KsHandles(o) == SumOver([t \in Threads |-> ks_held[t][o]], Threads)
TblHandles(x) == SumOver([t \in Threads |-> tbl_held[t][x]], Threads)

EmptyTables == [i \in TblIds |-> None]
Idle == [op |-> "idle", id |-> "", ks |-> None]

\* what the last step was and the value it returned
Ret(op, val) == [op |-> op, val |-> val]

\* ------------------------------------------------- Coremap (from contract)
get(m, k) == m[k]
contains_key(m, k) == m[k] # None
true_if_insert_ok(m, k) == m[k] = None
true_if_insert(m, k, v) == IF m[k] = None THEN [m EXCEPT ![k] = v] ELSE m
\* true_remove_if: the predicate is given as the set of values it accepts
true_remove_if_ok(m, k, accepted) == m[k] # None /\ m[k] \in accepted
\* mutant: the entry is removed whatever the predicate says
true_remove_if_Always(m, k, accepted) == [m EXCEPT ![k] = None]

true_remove_if(m, k, accepted) ==
    IF m[k] # None /\ m[k] \in accepted THEN [m EXCEPT ![k] = None] ELSE m
remove(m, k) == [m EXCEPT ![k] = None]

\* ------------------------------------------------------------ Arc and Drop
\* the tables a keyspace allocation owns
TablesOf(o) == {tables[o][i] : i \in TblIds} \ {None}

\* Dropping a Keyspace value drops its Coremap, hence one Arc<Table> each.
DropKeyspaceValue(o) ==
    /\ tables' = [tables EXCEPT ![o] = EmptyTables]
    /\ tbl_strong' = [x \in TblObjs |->
                        IF x \in TablesOf(o) THEN tbl_strong[x] - 1
                        ELSE tbl_strong[x]]

\* Dropping one Arc<Keyspace>: the value goes when the count reaches zero.
ArcDropKeyspace(o) ==
    /\ ks_strong' = [ks_strong EXCEPT ![o] = @ - 1]
    /\ IF ks_strong[o] = 1
       THEN DropKeyspaceValue(o)
       ELSE UNCHANGED <<tables, tbl_strong>>

\* Dropping one Arc<Table>.
ArcDropTable(x) == tbl_strong' = [tbl_strong EXCEPT ![x] = @ - 1]

\* Arc::new: the allocator may return any free slot; the model takes the
\* slot named after the identifier when it is free, the lowest free one
\* otherwise, so that equal hierarchies are equal states.
FreeKs == {o \in KsObjs : ks_strong[o] = 0}
FreeTbl == {x \in TblObjs : tbl_strong[x] = 0}
KsSlot(id) == IF id = DEFAULT THEN 1 ELSE IF id = SYSTEM THEN 2 ELSE 3
TblSlot(id) == IF id = DEFAULT THEN 1 ELSE 2
NewKs(id) ==
    IF KsSlot(id) \in FreeKs THEN KsSlot(id)
    ELSE IF FreeKs # {} THEN Min(FreeKs) ELSE None
NewTbl(id) ==
    IF TblSlot(id) \in FreeTbl THEN TblSlot(id)
    ELSE IF FreeTbl # {} THEN Min(FreeTbl) ELSE None

\* ------------------------------------------------------------ constructors
\* Memstore::new_empty
new_empty ==
    /\ keyspaces = [k \in KsIds |-> None]
    /\ tables = [o \in KsObjs |-> EmptyTables]
    /\ ks_strong = [o \in KsObjs |-> 0]
    /\ tbl_strong = [x \in TblObjs |-> 0]
    /\ snap_config = "None"
    /\ preload_lock = FALSE

\* mutant: `system` is built by Keyspace::empty_default as well
new_default_SystemDefault ==
    /\ keyspaces = [k \in KsIds |->
                      IF k = DEFAULT THEN 1 ELSE IF k = SYSTEM THEN 2 ELSE None]
    /\ tables = [o \in KsObjs |->
                   IF o = 1 THEN [EmptyTables EXCEPT ![DEFAULT] = 1]
                   ELSE IF o = 2 THEN [EmptyTables EXCEPT ![DEFAULT] = 2]
                   ELSE EmptyTables]
    /\ ks_strong = [o \in KsObjs |-> IF o \in {1, 2} THEN 1 ELSE 0]
    /\ tbl_strong = [x \in TblObjs |-> 1]
    /\ snap_config = "None"
    /\ preload_lock = FALSE

\* Memstore::new_default: `default` (Keyspace::empty_default, holding the
\* table `default`) and `system` (Keyspace::empty).
new_default ==
    /\ keyspaces = [k \in KsIds |->
                      IF k = DEFAULT THEN 1 ELSE IF k = SYSTEM THEN 2 ELSE None]
    /\ tables = [o \in KsObjs |->
                   IF o = 1 THEN [EmptyTables EXCEPT ![DEFAULT] = 1]
                   ELSE EmptyTables]
    /\ ks_strong = [o \in KsObjs |-> IF o \in {1, 2} THEN 1 ELSE 0]
    /\ tbl_strong = [x \in TblObjs |-> IF x = 1 THEN 1 ELSE 0]
    /\ snap_config = "None"
    /\ preload_lock = FALSE

\* no thread holds a handle or is inside a call yet; every keyspace carries
\* a partmap_lock made by QuickLock::new, and so does every allocation made
\* later: a slot is free only after its keyspace was destroyed, which the
\* borrow of a live QLGuard rules out
Start ==
    /\ partmap_lock = [o \in KsObjs |-> FALSE]
    /\ preload_guard = [t \in Threads |-> FALSE]
    /\ partmap_guard = [t \in Threads |-> [o \in KsObjs |-> FALSE]]
    /\ ks_held = [t \in Threads |-> [o \in KsObjs |-> 0]]
    /\ tbl_held = [t \in Threads |-> [x \in TblObjs |-> 0]]
    /\ pc = [t \in Threads |-> Idle]
    /\ ks_live = [k \in KsIds |-> keyspaces[k] # None]
    /\ tbl_live = [o \in KsObjs |-> [i \in TblIds |-> tables[o][i] # None]]
    /\ last = Ret("init", "")
    /\ lin = {[st |-> IF keyspaces[APPS] = None THEN -1 ELSE 0,
               res |-> [t \in Threads |-> ""]]}

\* the create race has not begun: no call made, no result, no keyspace
RaceStart(id) ==
    [id |-> id, calls |-> [t \in Threads |-> 0], wins |-> 0, losses |-> 0,
     obj |-> None]

\* what Lexer::lex returns: Ok(tokens) or Err(e); before it has returned, None
LangResult(tag, toks, e) == [tag |-> tag, tokens |-> toks, err |-> e]

\* no query is being lexed
NoLexer ==
    /\ buf = <<>>
    /\ cursor = 0
    /\ tokens = <<>>
    /\ last_error = "None"
    /\ lex_pc = "idle"
    /\ lex_result = LangResult("None", <<>>, "None")
    /\ oob = FALSE

\* a store built by Memstore::new_default
Init == new_default /\ Start /\ race = RaceStart(APPS) /\ NoLexer

\* a store built by Memstore::new_empty
InitEmpty == new_empty /\ Start /\ race = RaceStart(APPS) /\ NoLexer

\* ---------------------------------------------------------------- Memstore
\* Memstore::get_keyspace_atomic_ref
get_keyspace_atomic_ref(t, id) ==
    /\ pc[t] = Idle
    /\ KsHeldBy(t) < MaxKsHeld
    /\ LET o == get(keyspaces, id) IN
       IF o # None
       THEN /\ ks_strong' = [ks_strong EXCEPT ![o] = @ + 1]
            /\ ks_held' = [ks_held EXCEPT ![t][o] = @ + 1]
            /\ last' = Ret("get_keyspace_atomic_ref", "Some")
       ELSE /\ UNCHANGED <<ks_strong, ks_held>>
            /\ last' = Ret("get_keyspace_atomic_ref", "None")
    /\ UNCHANGED <<keyspaces, tables, tbl_strong, tbl_held, pc>>

\* mutant: the result of true_if_insert is dropped and true returned
create_keyspace_AlwaysTrue(t, id) ==
    /\ pc[t] = Idle
    /\ true_if_insert_ok(keyspaces, id) => FreeKs # {}
    /\ LET o == NewKs(id) IN
       /\ keyspaces' = true_if_insert(keyspaces, id, o)
       /\ IF true_if_insert_ok(keyspaces, id)
          THEN ks_strong' = [ks_strong EXCEPT ![o] = 1]
          ELSE UNCHANGED ks_strong
       /\ last' = Ret("create_keyspace", "true")
    /\ UNCHANGED <<tables, tbl_strong, ks_held, tbl_held, pc>>

\* mutant: the entry is written whether or not the name exists (an upsert)
create_keyspace_Upsert(t, id) ==
    /\ pc[t] = Idle
    /\ FreeKs # {}
    /\ LET o == NewKs(id)
           old == keyspaces[id]
       IN
       /\ keyspaces' = [keyspaces EXCEPT ![id] = o]
       /\ ks_strong' = [a \in KsObjs |->
                          IF a = o THEN 1
                          ELSE IF a = old THEN ks_strong[a] - 1
                          ELSE ks_strong[a]]
       /\ IF old # None /\ ks_strong[old] = 1
          THEN DropKeyspaceValue(old)
          ELSE UNCHANGED <<tables, tbl_strong>>
       /\ last' = Ret("create_keyspace", "true")
    /\ UNCHANGED <<ks_held, tbl_held, pc>>

\* Memstore::create_keyspace
create_keyspace(t, id) ==
    /\ pc[t] = Idle
    /\ true_if_insert_ok(keyspaces, id) => FreeKs # {}
    /\ LET o == NewKs(id) IN
       /\ keyspaces' = true_if_insert(keyspaces, id, o)
       /\ IF true_if_insert_ok(keyspaces, id)
          THEN /\ ks_strong' = [ks_strong EXCEPT ![o] = 1]
               /\ last' = Ret("create_keyspace", "true")
          ELSE /\ UNCHANGED ks_strong
               /\ last' = Ret("create_keyspace", "false")
    /\ UNCHANGED <<tables, tbl_strong, ks_held, tbl_held, pc>>

\* mutant of the closure: any count passes
KsUnreferenced_Any(arc) == ks_strong[arc] >= 1

\* the closure handed to true_remove_if in drop_keyspace
KsUnreferenced(arc) == ks_strong[arc] = 1

\* mutant: `system` left out of the protected names
IsProtectedKeyspace_DefaultOnly(id) == id = DEFAULT

\* mutant: `default` left out of the protected names
IsProtectedKeyspace_SystemOnly(id) == id = SYSTEM

\* the first branch of drop_keyspace
IsProtectedKeyspace(id) == id = SYSTEM \/ id = DEFAULT

\* mutant: the contains_key branch left out
drop_keyspace_check_NoContains(t, id) ==
    /\ pc[t] = Idle
    /\ IF IsProtectedKeyspace(id)
       THEN /\ last' = Ret("drop_keyspace", "ProtectedObject")
            /\ UNCHANGED pc
       ELSE /\ last' = Ret("drop_keyspace", "pending")
            /\ pc' = [pc EXCEPT ![t] = [op |-> "drop_keyspace", id |-> id, ks |-> None]]
    /\ UNCHANGED <<keyspaces, tables, ks_strong, tbl_strong, ks_held, tbl_held>>

\* Memstore::drop_keyspace, up to and including contains_key
drop_keyspace_check(t, id) ==
    /\ pc[t] = Idle
    /\ IF IsProtectedKeyspace(id)
       THEN /\ last' = Ret("drop_keyspace", "ProtectedObject")
            /\ UNCHANGED pc
       ELSE IF ~contains_key(keyspaces, id)
       THEN /\ last' = Ret("drop_keyspace", "ObjectNotFound")
            /\ UNCHANGED pc
       ELSE /\ last' = Ret("drop_keyspace", "pending")
            /\ pc' = [pc EXCEPT ![t] = [op |-> "drop_keyspace", id |-> id, ks |-> None]]
    /\ UNCHANGED <<keyspaces, tables, ks_strong, tbl_strong, ks_held, tbl_held>>

\* mutant: a removal that fails is tried again instead of returning
drop_keyspace_remove_Retry(t) ==
    /\ pc[t].op = "drop_keyspace"
    /\ LET id == pc[t].id
           o == keyspaces[id]
       IN
       /\ keyspaces' = true_remove_if(keyspaces, id, {a \in KsObjs : KsUnreferenced(a)})
       /\ IF true_remove_if_ok(keyspaces, id, {a \in KsObjs : KsUnreferenced(a)})
          THEN /\ ArcDropKeyspace(o)
               /\ last' = Ret("drop_keyspace", "Ok")
               /\ pc' = [pc EXCEPT ![t] = Idle]
          ELSE /\ UNCHANGED <<ks_strong, tables, tbl_strong>>
               /\ last' = Ret("drop_keyspace", "retry")
               /\ UNCHANGED pc
    /\ UNCHANGED <<ks_held, tbl_held>>

\* Memstore::drop_keyspace, the true_remove_if call and the result
drop_keyspace_remove(t) ==
    /\ pc[t].op = "drop_keyspace"
    /\ LET id == pc[t].id
           o == keyspaces[id]
       IN
       /\ keyspaces' = true_remove_if(keyspaces, id, {a \in KsObjs : KsUnreferenced(a)})
       /\ IF true_remove_if_ok(keyspaces, id, {a \in KsObjs : KsUnreferenced(a)})
          THEN /\ ArcDropKeyspace(o)
               /\ last' = Ret("drop_keyspace", "Ok")
          ELSE /\ UNCHANGED <<ks_strong, tables, tbl_strong>>
               /\ last' = Ret("drop_keyspace", "StillInUse")
    /\ pc' = [pc EXCEPT ![t] = Idle]
    /\ UNCHANGED <<ks_held, tbl_held>>

\* a thread lets go of an Arc<Keyspace> it holds
release_keyspace(t, o) ==
    /\ pc[t] = Idle
    /\ ks_held[t][o] > 0
    /\ ks_held' = [ks_held EXCEPT ![t][o] = @ - 1]
    /\ ArcDropKeyspace(o)
    /\ last' = Ret("release_keyspace", "")
    /\ UNCHANGED <<keyspaces, tbl_held, pc>>

\* ---------------------------------------------------------------- Keyspace
\* mutant: the handle is given out without Arc::clone counting it
get_table_atomic_ref_NoClone(t, o, id) ==
    /\ pc[t] = Idle
    /\ ks_held[t][o] > 0
    /\ TblHeldBy(t) < MaxTblHeld
    /\ LET x == get(tables[o], id) IN
       IF x # None
       THEN /\ tbl_held' = [tbl_held EXCEPT ![t][x] = @ + 1]
            /\ last' = Ret("get_table_atomic_ref", "Some")
       ELSE /\ UNCHANGED tbl_held
            /\ last' = Ret("get_table_atomic_ref", "None")
    /\ UNCHANGED <<keyspaces, tables, ks_strong, tbl_strong, ks_held, pc>>

\* Keyspace::get_table_atomic_ref, through a keyspace handle o of t
get_table_atomic_ref(t, o, id) ==
    /\ pc[t] = Idle
    /\ ks_held[t][o] > 0
    /\ TblHeldBy(t) < MaxTblHeld
    /\ LET x == get(tables[o], id) IN
       IF x # None
       THEN /\ tbl_strong' = [tbl_strong EXCEPT ![x] = @ + 1]
            /\ tbl_held' = [tbl_held EXCEPT ![t][x] = @ + 1]
            /\ last' = Ret("get_table_atomic_ref", "Some")
       ELSE /\ UNCHANGED <<tbl_strong, tbl_held>>
            /\ last' = Ret("get_table_atomic_ref", "None")
    /\ UNCHANGED <<keyspaces, tables, ks_strong, ks_held, pc>>

\* mutant: true is returned for an absent name but nothing is inserted
create_table_Lost(t, o, id) ==
    /\ pc[t] = Idle
    /\ ks_held[t][o] > 0
    /\ true_if_insert_ok(tables[o], id) => FreeTbl # {}
    /\ IF true_if_insert_ok(tables[o], id)
       THEN last' = Ret("create_table", "true")
       ELSE last' = Ret("create_table", "false")
    /\ UNCHANGED <<keyspaces, tables, ks_strong, tbl_strong, ks_held, tbl_held, pc>>

\* Keyspace::create_table
create_table(t, o, id) ==
    /\ pc[t] = Idle
    /\ ks_held[t][o] > 0
    /\ true_if_insert_ok(tables[o], id) => FreeTbl # {}
    /\ LET x == NewTbl(id) IN
       /\ tables' = [tables EXCEPT ![o] = true_if_insert(tables[o], id, x)]
       /\ IF true_if_insert_ok(tables[o], id)
          THEN /\ tbl_strong' = [tbl_strong EXCEPT ![x] = 1]
               /\ last' = Ret("create_table", "true")
          ELSE /\ UNCHANGED tbl_strong
               /\ last' = Ret("create_table", "false")
    /\ UNCHANGED <<keyspaces, ks_strong, ks_held, tbl_held, pc>>

\* mutants of the closure: any count passes / one extra handle passes /
\* the map's own reference is forgotten
TblUnreferenced_Any(arc) == tbl_strong[arc] >= 1
TblUnreferenced_OffByOne(arc) == tbl_strong[arc] <= 2
TblUnreferenced_Zero(arc) == tbl_strong[arc] = 0

\* the closure handed to true_remove_if in drop_table
TblUnreferenced(arc) == tbl_strong[arc] = 1

\* the first branch of drop_table
IsProtectedTable(id) == id = DEFAULT

\* mutant: contains_key is asked before the protected name is
drop_table_check_ContainsFirst(t, o, id) ==
    /\ pc[t] = Idle
    /\ ks_held[t][o] > 0
    /\ IF ~contains_key(tables[o], id)
       THEN /\ last' = Ret("drop_table", "ObjectNotFound")
            /\ UNCHANGED pc
       ELSE IF IsProtectedTable(id)
       THEN /\ last' = Ret("drop_table", "ProtectedObject")
            /\ UNCHANGED pc
       ELSE /\ last' = Ret("drop_table", "pending")
            /\ pc' = [pc EXCEPT ![t] = [op |-> "drop_table", id |-> id, ks |-> o]]
    /\ UNCHANGED <<keyspaces, tables, ks_strong, tbl_strong, ks_held, tbl_held>>

\* Keyspace::drop_table, up to and including contains_key
drop_table_check(t, o, id) ==
    /\ pc[t] = Idle
    /\ ks_held[t][o] > 0
    /\ IF IsProtectedTable(id)
       THEN /\ last' = Ret("drop_table", "ProtectedObject")
            /\ UNCHANGED pc
       ELSE IF ~contains_key(tables[o], id)
       THEN /\ last' = Ret("drop_table", "ObjectNotFound")
            /\ UNCHANGED pc
       ELSE /\ last' = Ret("drop_table", "pending")
            /\ pc' = [pc EXCEPT ![t] = [op |-> "drop_table", id |-> id, ks |-> o]]
    /\ UNCHANGED <<keyspaces, tables, ks_strong, tbl_strong, ks_held, tbl_held>>

\* mutant: a held partmap_lock counts as the table being in use
drop_table_remove_UnderLock(t) ==
    /\ pc[t].op = "drop_table"
    /\ LET id == pc[t].id
           o == pc[t].ks
           x == tables[o][id]
           ok == /\ ~partmap_lock[o]
                 /\ true_remove_if_ok(tables[o], id, {a \in TblObjs : TblUnreferenced(a)})
       IN
       /\ IF ok
          THEN /\ tables' = [tables EXCEPT ![o] = remove(tables[o], id)]
               /\ ArcDropTable(x)
               /\ last' = Ret("drop_table", "Ok")
          ELSE /\ UNCHANGED <<tables, tbl_strong>>
               /\ last' = Ret("drop_table", "StillInUse")
    /\ pc' = [pc EXCEPT ![t] = Idle]
    /\ UNCHANGED <<keyspaces, ks_strong, ks_held, tbl_held>>

\* Keyspace::drop_table, the true_remove_if call and the result
drop_table_remove(t) ==
    /\ pc[t].op = "drop_table"
    /\ LET id == pc[t].id
           o == pc[t].ks
           x == tables[o][id]
       IN
       /\ tables' = [tables EXCEPT ![o] =
                       true_remove_if(tables[o], id, {a \in TblObjs : TblUnreferenced(a)})]
       /\ IF true_remove_if_ok(tables[o], id, {a \in TblObjs : TblUnreferenced(a)})
          THEN /\ ArcDropTable(x)
               /\ last' = Ret("drop_table", "Ok")
          ELSE /\ UNCHANGED tbl_strong
               /\ last' = Ret("drop_table", "StillInUse")
    /\ pc' = [pc EXCEPT ![t] = Idle]
    /\ UNCHANGED <<keyspaces, ks_strong, ks_held, tbl_held>>

\* a thread lets go of an Arc<Table> it holds
release_table(t, x) ==
    /\ pc[t] = Idle
    /\ tbl_held[t][x] > 0
    /\ tbl_held' = [tbl_held EXCEPT ![t][x] = @ - 1]
    /\ ArcDropTable(x)
    /\ last' = Ret("release_table", "")
    /\ UNCHANGED <<keyspaces, tables, ks_strong, ks_held, pc>>

\* ------------------------------------------------------- history variables
\* ks_live and tbl_live are driven by the returned values alone: a create
\* that returned true sets the flag, a drop that returned Ok clears it, and
\* the flags of a destroyed keyspace allocation are cleared with it.
NoLive == [i \in TblIds |-> FALSE]

HistKs(op, id) ==
    /\ ks_live' =
         IF op = "create_keyspace" /\ last'.val = "true"
         THEN [ks_live EXCEPT ![id] = TRUE]
         ELSE IF op = "drop_keyspace" /\ last'.val = "Ok"
         THEN [ks_live EXCEPT ![id] = FALSE]
         ELSE ks_live
    /\ tbl_live' = [o \in KsObjs |->
                      IF ks_strong'[o] = 0 THEN NoLive ELSE tbl_live[o]]

HistTbl(op, o, id) ==
    /\ tbl_live' =
         IF op = "create_table" /\ last'.val = "true"
         THEN [tbl_live EXCEPT ![o][id] = TRUE]
         ELSE IF op = "drop_table" /\ last'.val = "Ok"
         THEN [tbl_live EXCEPT ![o][id] = FALSE]
         ELSE tbl_live
    /\ UNCHANGED ks_live

\* ------------------------------------------------------------ specification
Next ==
    \/ \E t \in Threads, id \in KsIds :
          get_keyspace_atomic_ref(t, id) /\ UNCHANGED <<hist, aux>>
    \/ \E t \in Threads, id \in KsIds :
          create_keyspace(t, id) /\ HistKs("create_keyspace", id)
             /\ UNCHANGED aux
    \/ \E t \in Threads, id \in KsIds :
          drop_keyspace_check(t, id) /\ UNCHANGED <<hist, aux>>
    \/ \E t \in Threads :
          drop_keyspace_remove(t) /\ HistKs("drop_keyspace", pc[t].id)
             /\ UNCHANGED aux
    \/ \E t \in Threads, o \in KsObjs :
          release_keyspace(t, o) /\ HistKs("release_keyspace", "")
             /\ UNCHANGED aux
    \/ \E t \in Threads, o \in KsObjs, id \in TblIds :
          get_table_atomic_ref(t, o, id) /\ UNCHANGED <<hist, aux>>
    \/ \E t \in Threads, o \in KsObjs, id \in TblIds :
          create_table(t, o, id) /\ HistTbl("create_table", o, id)
             /\ UNCHANGED aux
    \/ \E t \in Threads, o \in KsObjs, id \in TblIds :
          drop_table_check(t, o, id) /\ UNCHANGED <<hist, aux>>
    \/ \E t \in Threads :
          drop_table_remove(t) /\ HistTbl("drop_table", pc[t].ks, pc[t].id)
             /\ UNCHANGED aux
    \/ \E t \in Threads, x \in TblObjs :
          release_table(t, x) /\ UNCHANGED <<hist, aux>>

Spec == Init /\ [][Next]_vars

\* the same threads and operations on a store built by new_empty
SpecEmpty == InitEmpty /\ [][Next]_vars

\* ------------------------------------------------ sequential specification
\* Spec section 4.4 for one keyspace name that is not protected.  The state
\* is -1 (no keyspace of that name) or the number n >= 0 of handles given
\* out for the keyspace that exists.
SeqEnabled(op, st) == op = "release_keyspace" => st >= 1

SeqResult(op, st) ==
    IF op = "create_keyspace" THEN (IF st = -1 THEN "true" ELSE "false")
    ELSE IF op = "get_keyspace_atomic_ref" THEN (IF st = -1 THEN "None" ELSE "Some")
    ELSE IF op = "drop_keyspace"
    THEN (IF st = -1 THEN "ObjectNotFound" ELSE IF st > 0 THEN "StillInUse" ELSE "Ok")
    ELSE ""

SeqState(op, st) ==
    IF op = "create_keyspace" THEN (IF st = -1 THEN 0 ELSE st)
    ELSE IF op = "get_keyspace_atomic_ref" THEN (IF st = -1 THEN st ELSE st + 1)
    ELSE IF op = "drop_keyspace" THEN (IF st = 0 THEN -1 ELSE st)
    ELSE st - 1

\* A member of lin is one sequential execution so far: its state and, per
\* thread, "" (no drop_keyspace in flight), "pending" (invoked, not yet
\* placed in the order) or the result it got when it was placed.
LinPlace(c, t) ==
    [st |-> SeqState("drop_keyspace", c.st),
     res |-> [c.res EXCEPT ![t] = SeqResult("drop_keyspace", c.st)]]

RECURSIVE LinClosure(_)
LinClosure(C) ==
    LET D == C \cup UNION {{LinPlace(c, t) : t \in {u \in Threads : c.res[u] = "pending"}}
                             : c \in C}
    IN IF D = C THEN C ELSE LinClosure(D)

\* drop_keyspace is invoked by t and stays in flight
LinInvoke(t) == lin' = LinClosure({[c EXCEPT !.res[t] = "pending"] : c \in lin})

\* the drop_keyspace of t returns r
LinRespond(t, r) ==
    lin' = {[c EXCEPT !.res[t] = ""] : c \in {d \in lin : d.res[t] = r}}

\* a call that is invoked and returns r in one step
LinInstant(op, r) ==
    lin' = LinClosure({[c EXCEPT !.st = SeqState(op, c.st)] :
                         c \in {d \in lin : SeqEnabled(op, d.st) /\ SeqResult(op, d.st) = r}})

\* the root-store operations, with the sequential executions of the calls
\* on `apps` followed in lin (calls on the protected names return in one step)
NextLin ==
    \/ \E t \in Threads, id \in KsIds :
          /\ get_keyspace_atomic_ref(t, id)
          /\ IF id = APPS
             THEN LinInstant("get_keyspace_atomic_ref", last'.val)
             ELSE UNCHANGED lin
          /\ UNCHANGED <<hist, race, snap_config, locks, lexer>>
    \/ \E t \in Threads, id \in KsIds :
          /\ create_keyspace(t, id)
          /\ HistKs("create_keyspace", id)
          /\ IF id = APPS
             THEN LinInstant("create_keyspace", last'.val)
             ELSE UNCHANGED lin
          /\ UNCHANGED <<race, snap_config, locks, lexer>>
    \/ \E t \in Threads, id \in KsIds :
          /\ drop_keyspace_check(t, id)
          /\ IF id # APPS THEN UNCHANGED lin
             ELSE IF last'.val = "pending" THEN LinInvoke(t)
             ELSE LinInstant("drop_keyspace", last'.val)
          /\ UNCHANGED <<hist, race, snap_config, locks, lexer>>
    \/ \E t \in Threads :
          /\ drop_keyspace_remove(t)
          /\ HistKs("drop_keyspace", pc[t].id)
          /\ LinRespond(t, last'.val)
          /\ UNCHANGED <<race, snap_config, locks, lexer>>
    \/ \E t \in Threads, o \in KsObjs :
          /\ release_keyspace(t, o)
          /\ HistKs("release_keyspace", "")
          /\ IF o = keyspaces[APPS]
             THEN LinInstant("release_keyspace", "")
             ELSE UNCHANGED lin
          /\ UNCHANGED <<race, snap_config, locks, lexer>>

SpecLin == Init /\ [][NextLin]_vars

\* ------------------------------------------------------------- create race
\* The threads call create_keyspace on one name that is absent beforehand,
\* up to MaxCalls times each, and look the name up; nobody drops.
InitRace ==
    /\ new_default \/ new_empty
    /\ Start
    /\ \E id \in KsIds : keyspaces[id] = None /\ race = RaceStart(id)
    /\ NoLexer

NextRace ==
    \/ \E t \in Threads :
          /\ race.calls[t] < MaxCalls
          /\ create_keyspace(t, race.id)
          /\ HistKs("create_keyspace", race.id)
          /\ race' = [race EXCEPT
                        !.calls[t] = @ + 1,
                        !.wins = IF last'.val = "true" THEN @ + 1 ELSE @,
                        !.losses = IF last'.val = "false" THEN @ + 1 ELSE @,
                        !.obj = IF last'.val = "true" THEN keyspaces'[race.id] ELSE @]
          /\ UNCHANGED <<lin, snap_config, locks, lexer>>
    \/ \E t \in Threads :
          get_keyspace_atomic_ref(t, race.id) /\ UNCHANGED <<hist, aux>>
    \/ \E t \in Threads, o \in KsObjs :
          release_keyspace(t, o) /\ HistKs("release_keyspace", "")
             /\ UNCHANGED aux

SpecRace == InitRace /\ [][NextRace]_vars

\* ------------------------------------------------------ force_remove_table
\* Keyspace::force_remove_table: Coremap::remove, the result thrown away
force_remove_table(t, o, id) ==
    /\ pc[t] = Idle
    /\ ks_held[t][o] > 0
    /\ tables' = [tables EXCEPT ![o] = remove(tables[o], id)]
    /\ IF tables[o][id] # None
       THEN ArcDropTable(tables[o][id])
       ELSE UNCHANGED tbl_strong
    /\ last' = Ret("force_remove_table", "")
    /\ UNCHANGED <<keyspaces, ks_strong, ks_held, tbl_held, pc>>

\* what the caller of the unsafe fn promises: nobody holds the table
ForcePre(o, id) == tables[o][id] # None => TblHandles(tables[o][id]) = 0

\* a forced removal ends the life of the entry as a drop that returned Ok does
HistForce(o, id) ==
    /\ tbl_live' = [tbl_live EXCEPT ![o][id] = FALSE]
    /\ UNCHANGED ks_live

\* the operations of Next and force_remove_table called within its contract
NextForce ==
    \/ Next
    \/ \E t \in Threads, o \in KsObjs, id \in TblIds :
          /\ ForcePre(o, id)
          /\ force_remove_table(t, o, id)
          /\ HistForce(o, id)
          /\ UNCHANGED aux

SpecForce == Init /\ [][NextForce]_vars

\* ------------------------------------------------------------ fair threads
\* the step a thread inside drop_keyspace / drop_table takes next
InCall(t) ==
    \/ drop_keyspace_remove(t) /\ HistKs("drop_keyspace", pc[t].id)
          /\ UNCHANGED aux
    \/ drop_table_remove(t) /\ HistTbl("drop_table", pc[t].ks, pc[t].id)
          /\ UNCHANGED aux

\* a thread that is inside a call keeps running: the scheduler does not
\* starve it for ever
SpecFair == Spec /\ \A t \in Threads : WF_vars(InCall(t))

\* ----------------------------------------------------------- advisory locks
\* QuickLock (coredb/lock.rs), from its contract: a binary lock; lock()
\* returns a guard once the lock is free, dropping the guard frees it.
QuickLock_new == FALSE

\* mutant: lock() does not wait
QuickLock_can_lock_NoWait(l) == TRUE

QuickLock_can_lock(l) == l = FALSE
QuickLock_locked == TRUE
QLGuard_drop == FALSE

\* Keyspace::lock_partmap is called: the thread is inside QuickLock::lock
lock_partmap_call(t, o) ==
    /\ pc[t] = Idle
    /\ ks_held[t][o] > 0
    /\ pc' = [pc EXCEPT ![t] = [op |-> "lock_partmap", id |-> "", ks |-> o]]
    /\ last' = Ret("lock_partmap", "waiting")
    /\ UNCHANGED <<keyspaces, tables, ks_strong, tbl_strong, ks_held, tbl_held>>
    /\ UNCHANGED locks

\* Keyspace::lock_partmap returns the guard
lock_partmap_acquire(t) ==
    /\ pc[t].op = "lock_partmap"
    /\ QuickLock_can_lock(partmap_lock[pc[t].ks])
    /\ partmap_lock' = [partmap_lock EXCEPT ![pc[t].ks] = QuickLock_locked]
    /\ partmap_guard' = [partmap_guard EXCEPT ![t][pc[t].ks] = TRUE]
    /\ pc' = [pc EXCEPT ![t] = Idle]
    /\ last' = Ret("lock_partmap", "guard")
    /\ UNCHANGED <<keyspaces, tables, ks_strong, tbl_strong, ks_held, tbl_held>>
    /\ UNCHANGED <<preload_lock, preload_guard>>

\* mutant: the guard goes but the lock stays held
drop_partmap_guard_KeepsLock(t, o) ==
    /\ pc[t] = Idle
    /\ partmap_guard[t][o]
    /\ partmap_guard' = [partmap_guard EXCEPT ![t][o] = FALSE]
    /\ UNCHANGED partmap_lock
    /\ last' = Ret("drop_partmap_guard", "")
    /\ UNCHANGED core
    /\ UNCHANGED <<preload_lock, preload_guard>>

\* the QLGuard of a keyspace's partmap_lock goes out of scope
drop_partmap_guard(t, o) ==
    /\ pc[t] = Idle
    /\ partmap_guard[t][o]
    /\ partmap_guard' = [partmap_guard EXCEPT ![t][o] = FALSE]
    /\ partmap_lock' = [partmap_lock EXCEPT ![o] = QLGuard_drop]
    /\ last' = Ret("drop_partmap_guard", "")
    /\ UNCHANGED core
    /\ UNCHANGED <<preload_lock, preload_guard>>

\* the preload lock of the root store is asked for
lock_preload_call(t) ==
    /\ pc[t] = Idle
    /\ pc' = [pc EXCEPT ![t] = [op |-> "lock_preload", id |-> "", ks |-> None]]
    /\ last' = Ret("lock_preload", "waiting")
    /\ UNCHANGED <<keyspaces, tables, ks_strong, tbl_strong, ks_held, tbl_held>>
    /\ UNCHANGED locks

\* the preload lock is handed to the thread
lock_preload_acquire(t) ==
    /\ pc[t].op = "lock_preload"
    /\ QuickLock_can_lock(preload_lock)
    /\ preload_lock' = QuickLock_locked
    /\ preload_guard' = [preload_guard EXCEPT ![t] = TRUE]
    /\ pc' = [pc EXCEPT ![t] = Idle]
    /\ last' = Ret("lock_preload", "guard")
    /\ UNCHANGED <<keyspaces, tables, ks_strong, tbl_strong, ks_held, tbl_held>>
    /\ UNCHANGED <<partmap_lock, partmap_guard>>

\* the guard of the preload lock goes out of scope
drop_preload_guard(t) ==
    /\ pc[t] = Idle
    /\ preload_guard[t]
    /\ preload_guard' = [preload_guard EXCEPT ![t] = FALSE]
    /\ preload_lock' = QLGuard_drop
    /\ last' = Ret("drop_preload_guard", "")
    /\ UNCHANGED core
    /\ UNCHANGED <<partmap_lock, partmap_guard>>

\* the root-store operations and the two kinds of advisory lock; a QLGuard
\* borrows the keyspace, so the handle it was taken through outlives it
NextLock ==
    \/ \E t \in Threads, id \in KsIds :
          get_keyspace_atomic_ref(t, id) /\ UNCHANGED <<hist, aux>>
    \/ \E t \in Threads, id \in KsIds :
          create_keyspace(t, id) /\ HistKs("create_keyspace", id)
             /\ UNCHANGED aux
    \/ \E t \in Threads, id \in KsIds :
          drop_keyspace_check(t, id) /\ UNCHANGED <<hist, aux>>
    \/ \E t \in Threads :
          drop_keyspace_remove(t) /\ HistKs("drop_keyspace", pc[t].id)
             /\ UNCHANGED aux
    \/ \E t \in Threads, o \in KsObjs :
          /\ ~partmap_guard[t][o]
          /\ release_keyspace(t, o) /\ HistKs("release_keyspace", "")
          /\ UNCHANGED aux
    \/ \E t \in Threads, o \in KsObjs :
          lock_partmap_call(t, o) /\ UNCHANGED <<hist, lin, race, snap_config, lexer>>
    \/ \E t \in Threads :
          lock_partmap_acquire(t) /\ UNCHANGED <<hist, lin, race, snap_config, lexer>>
    \/ \E t \in Threads, o \in KsObjs :
          drop_partmap_guard(t, o) /\ UNCHANGED <<hist, lin, race, snap_config, lexer>>
    \/ \E t \in Threads :
          lock_preload_call(t) /\ UNCHANGED <<hist, lin, race, snap_config, lexer>>
    \/ \E t \in Threads :
          lock_preload_acquire(t) /\ UNCHANGED <<hist, lin, race, snap_config, lexer>>
    \/ \E t \in Threads :
          drop_preload_guard(t) /\ UNCHANGED <<hist, lin, race, snap_config, lexer>>

SpecLock == Init /\ [][NextLock]_vars

\* the step that hands the partmap lock to a thread blocked in lock_partmap
LockAcquire(t) ==
    lock_partmap_acquire(t) /\ UNCHANGED <<hist, lin, race, snap_config, lexer>>

\* a blocked thread keeps trying: if the lock is free again and again, one
\* of its attempts succeeds
SpecLockFair == SpecLock /\ \A t \in Threads : SF_vars(LockAcquire(t))

\* every operation of the hierarchy next to the partition-map locks: the
\* operations of Next (a handle under a live QLGuard is not released),
\* force_remove_table within its contract on the table `apps`, and
\* lock_partmap with its guard
NextIndep ==
    \/ \E t \in Threads, id \in KsIds :
          get_keyspace_atomic_ref(t, id) /\ UNCHANGED <<hist, aux>>
    \/ \E t \in Threads, id \in KsIds :
          create_keyspace(t, id) /\ HistKs("create_keyspace", id)
             /\ UNCHANGED aux
    \/ \E t \in Threads, id \in KsIds :
          drop_keyspace_check(t, id) /\ UNCHANGED <<hist, aux>>
    \/ \E t \in Threads :
          drop_keyspace_remove(t) /\ HistKs("drop_keyspace", pc[t].id)
             /\ UNCHANGED aux
    \/ \E t \in Threads, o \in KsObjs :
          /\ ~partmap_guard[t][o]
          /\ release_keyspace(t, o) /\ HistKs("release_keyspace", "")
          /\ UNCHANGED aux
    \/ \E t \in Threads, o \in KsObjs, id \in TblIds :
          get_table_atomic_ref(t, o, id) /\ UNCHANGED <<hist, aux>>
    \/ \E t \in Threads, o \in KsObjs, id \in TblIds :
          create_table(t, o, id) /\ HistTbl("create_table", o, id)
             /\ UNCHANGED aux
    \/ \E t \in Threads, o \in KsObjs, id \in TblIds :
          drop_table_check(t, o, id) /\ UNCHANGED <<hist, aux>>
    \/ \E t \in Threads :
          drop_table_remove(t) /\ HistTbl("drop_table", pc[t].ks, pc[t].id)
             /\ UNCHANGED aux
    \/ \E t \in Threads, x \in TblObjs :
          release_table(t, x) /\ UNCHANGED <<hist, aux>>
    \/ \E t \in Threads, o \in KsObjs :
          /\ ForcePre(o, APPS)
          /\ force_remove_table(t, o, APPS)
          /\ HistForce(o, APPS)
          /\ UNCHANGED aux
    \/ \E t \in Threads, o \in KsObjs :
          lock_partmap_call(t, o) /\ UNCHANGED <<hist, lin, race, snap_config, lexer>>
    \/ \E t \in Threads :
          lock_partmap_acquire(t) /\ UNCHANGED <<hist, lin, race, snap_config, lexer>>
    \/ \E t \in Threads, o \in KsObjs :
          drop_partmap_guard(t, o) /\ UNCHANGED <<hist, lin, race, snap_config, lexer>>

SpecIndep == Init /\ [][NextIndep]_vars

\* ------------------------------------------------------------ BlueQL lexer
\* Lexer::lex over a byte buffer.  The cursor and end_ptr are raw pointers in
\* the source; here they are offsets from the start of buf, so buf[c + 1] is
\* the byte under a cursor at offset c and end_ptr is the length of buf.
MaxLen == 3

TAB == 9
NEWLINE == 10
SPACE == 32
DQUOTE == 34
SQUOTE == 39
BACKSLASH == 92
UNDERSCORE == 95

\* the bytes the inputs are made of: 1 2 space newline " \ ( # u s e U
Alphabet == {49, 50, SPACE, NEWLINE, DQUOTE, BACKSLASH, 40, 35, 117, 115, 101, 85}
Inputs == UNION {[1..n -> Alphabet] : n \in 0..MaxLen}

\* what a read outside the buffer may bring back: any byte of the alphabet
\* or a byte that is no ASCII
Garbage == Alphabet \cup {255}

is_ascii_digit(b) == b \in 48..57
is_ascii_alphabetic(b) == b \in (65..90) \cup (97..122)
is_ascii_alphanumeric(b) == is_ascii_digit(b) \/ is_ascii_alphabetic(b)
to_ascii_lowercase(s) ==
    [i \in 1..Len(s) |-> IF s[i] \in 65..90 THEN s[i] + 32 ELSE s[i]]

Token(kind, val, kw) == [kind |-> kind, val |-> val, kw |-> kw]

\* Keyword::try_from_slice: the keyword of a slice, "None" when it is none
Keyword_try_from_slice(slice) ==
    LET l == to_ascii_lowercase(slice)
    IN  CASE l = <<99, 114, 101, 97, 116, 101>> -> "Create"
          [] l = <<100, 114, 111, 112>> -> "Drop"
          [] l = <<105, 110, 115, 112, 101, 99, 116>> -> "Inspect"
          [] l = <<109, 111, 100, 101, 108>> -> "Model"
          [] l = <<115, 112, 97, 99, 101>> -> "Space"
          [] l = <<118, 111, 108, 97, 116, 105, 108, 101>> -> "Volatile"
          [] l = <<115, 116, 114, 105, 110, 103>> -> "Type(String)"
          [] l = <<98, 105, 110, 97, 114, 121>> -> "Type(Binary)"
          [] l = <<108, 105, 115, 116>> -> "Type(List)"
          [] l = <<102, 111, 114, 99, 101>> -> "Force"
          [] l = <<117, 115, 101>> -> "Use"
          [] OTHER -> "None"

\* u64::MAX in decimal digits
U64_MAX == <<1, 8, 4, 4, 6, 7, 4, 4, 0, 7, 3, 7, 0, 9, 5, 5, 1, 6, 1, 5>>

RECURSIVE StripZeros(_)
StripZeros(d) == IF Len(d) > 1 /\ d[1] = 0 THEN StripZeros(Tail(d)) ELSE d

\* a <= b for two numerals of the same length
DigitsLeq(a, b) ==
    \/ a = b
    \/ \E i \in 1..Len(a) : a[i] < b[i] /\ \A j \in 1..(i - 1) : a[j] = b[j]

\* str::parse::<u64> of a slice: the number as its decimal digits without
\* leading zeros; an error on an empty slice, a byte that is no digit, or a
\* number above u64::MAX
parse_u64(slice) ==
    IF slice = <<>> \/ \E i \in 1..Len(slice) : ~is_ascii_digit(slice[i])
    THEN [ok |-> FALSE, val |-> <<>>]
    ELSE LET d == StripZeros([i \in 1..Len(slice) |-> slice[i] - 48])
         IN  IF Len(d) > Len(U64_MAX) \/ (Len(d) = Len(U64_MAX) /\ ~DigitsLeq(d, U64_MAX))
             THEN [ok |-> FALSE, val |-> <<>>]
             ELSE [ok |-> TRUE, val |-> d]

\* String::from_utf8 of bytes that are ASCII but for one byte read outside
\* the buffer, which comes last
from_utf8_ok(bytes) == \A i \in 1..Len(bytes) : bytes[i] < 128

end_ptr == Len(buf)
not_exhausted(c) == c < end_ptr
exhausted(c) == c >= end_ptr

\* deref_cursor: the byte under the cursor; at or past end_ptr the read is
\* outside the buffer and brings back the byte g
deref_cursor(c, g) == IF c < end_ptr THEN buf[c + 1] ELSE g

\* peek_is with the predicate of scan_number
peek_is_digit(c) == not_exhausted(c) /\ is_ascii_digit(buf[c + 1])
\* peek_is with the predicate of scan_ident
peek_is_ident(c) ==
    not_exhausted(c) /\ (is_ascii_alphanumeric(buf[c + 1]) \/ buf[c + 1] = UNDERSCORE)
peek_eq(c, eq) == not_exhausted(c) /\ buf[c + 1] = eq
peek_neq(c, neq) == not_exhausted(c) /\ buf[c + 1] # neq

\* incr_cursor_if
incr_cursor_if(c, cond) == c + (IF cond THEN 1 ELSE 0)

peek_eq_and_forward(c, eq) ==
    LET did_peek == peek_eq(c, eq)
    IN  [ret |-> did_peek, cursor |-> incr_cursor_if(c, did_peek)]

peek_eq_or_eof_and_forward(c, eq) ==
    LET f == peek_eq_and_forward(c, eq)
        did_forward == f.ret
        c2 == incr_cursor_if(f.cursor, did_forward)
    IN  [ret |-> did_forward \/ exhausted(c2), cursor |-> c2]

RECURSIVE trim_ahead(_)
trim_ahead(c) ==
    LET f == peek_eq_and_forward(c, SPACE)
    IN  IF f.ret THEN trim_ahead(f.cursor) ELSE f.cursor

check_escaped(c, escape_what, g) ==
    deref_cursor(c, g) = BACKSLASH
        /\ (not_exhausted(c) /\ deref_cursor(c, g) = escape_what)

\* what a scanner leaves: the cursor, the tokens it pushed, the error it
\* set ("None" when it set none), whether it read outside the buffer
Scanned(c, tok, e, o) == [cursor |-> c, tok |-> tok, err |-> e, oob |-> o]

RECURSIVE digit_run(_)
digit_run(c) == IF peek_is_digit(c) THEN digit_run(c + 1) ELSE c

RECURSIVE ident_run(_)
ident_run(c) == IF peek_is_ident(c) THEN ident_run(c + 1) ELSE c

\* slice::from_raw_parts(start, find_ptr_distance(start, stop))
RawSlice(start, stop) == SubSeq(buf, start + 1, stop)

scan_number(start) ==
    LET stop == digit_run(start)
        f == peek_eq_or_eof_and_forward(stop, SPACE)
        next_is_ws_or_eof == f.ret
        num == parse_u64(RawSlice(start, stop))
    IN  IF num.ok /\ next_is_ws_or_eof
        THEN Scanned(f.cursor, <<Token("Number", num.val, "")>>, "None", FALSE)
        ELSE Scanned(f.cursor, <<>>, "InvalidNumericLiteral", FALSE)

scan_ident_or_keyword(start) ==
    LET stop == ident_run(start)
        ident == RawSlice(start, stop)
        kw == Keyword_try_from_slice(ident)
    IN  IF kw # "None"
        THEN Scanned(stop, <<Token("Keyword", <<>>, kw)>>, "None", FALSE)
        ELSE Scanned(stop, <<Token("Identifier", ident, "")>>, "None", FALSE)

\* the loop of scan_quoted_string from a cursor c with stringbuf sb
RECURSIVE quoted_loop(_, _, _, _, _)
quoted_loop(c, sb, o, quote_style, g) ==
    IF peek_neq(c, quote_style)
    THEN LET is_escaped_backslash == check_escaped(c, BACKSLASH, g)
             is_escaped_quote == check_escaped(c, DQUOTE, g)
             c1 == incr_cursor_if(c, is_escaped_backslash \/ is_escaped_quote)
         IN  quoted_loop(c1 + 1, Append(sb, deref_cursor(c1, g)),
                         o \/ exhausted(c) \/ exhausted(c1), quote_style, g)
    ELSE [cursor |-> c, stringbuf |-> sb, oob |-> o]

scan_quoted_string(start, quote_style, g) ==
    LET l == quoted_loop(start + 1, <<>>, FALSE, quote_style, g)
        f == peek_eq_and_forward(l.cursor, quote_style)
        is_okay == f.ret
    IN  IF from_utf8_ok(l.stringbuf) /\ is_okay
        THEN Scanned(f.cursor, <<Token("QuotedString", l.stringbuf, "")>>, "None", l.oob)
        ELSE Scanned(f.cursor, <<>>, "InvalidStringLiteral", l.oob)

\* mutant: an unexpected byte is left where it is and no error is set
scan_arbitrary_byte_Silent(c, byte) ==
    CASE byte = 60 -> Scanned(c + 1, <<Token("OpenAngular", <<>>, "")>>, "None", FALSE)
      [] byte = 62 -> Scanned(c + 1, <<Token("CloseAngular", <<>>, "")>>, "None", FALSE)
      [] byte = 40 -> Scanned(c + 1, <<Token("OpenParen", <<>>, "")>>, "None", FALSE)
      [] byte = 41 -> Scanned(c + 1, <<Token("CloseParen", <<>>, "")>>, "None", FALSE)
      [] byte = 44 -> Scanned(c + 1, <<Token("Comma", <<>>, "")>>, "None", FALSE)
      [] byte = 58 -> Scanned(c + 1, <<Token("Colon", <<>>, "")>>, "None", FALSE)
      [] byte = 46 -> Scanned(c + 1, <<Token("Period", <<>>, "")>>, "None", FALSE)
      [] OTHER -> Scanned(c, <<>>, "None", FALSE)

\* scan_arbitrary_byte: < > ( ) , : . are tokens, any other byte an error
scan_arbitrary_byte(c, byte) ==
    CASE byte = 60 -> Scanned(c + 1, <<Token("OpenAngular", <<>>, "")>>, "None", FALSE)
      [] byte = 62 -> Scanned(c + 1, <<Token("CloseAngular", <<>>, "")>>, "None", FALSE)
      [] byte = 40 -> Scanned(c + 1, <<Token("OpenParen", <<>>, "")>>, "None", FALSE)
      [] byte = 41 -> Scanned(c + 1, <<Token("CloseParen", <<>>, "")>>, "None", FALSE)
      [] byte = 44 -> Scanned(c + 1, <<Token("Comma", <<>>, "")>>, "None", FALSE)
      [] byte = 58 -> Scanned(c + 1, <<Token("Colon", <<>>, "")>>, "None", FALSE)
      [] byte = 46 -> Scanned(c + 1, <<Token("Period", <<>>, "")>>, "None", FALSE)
      [] OTHER -> Scanned(c, <<>>, "UnexpectedChar", FALSE)

\* Lexer::new on one of the inputs
Lexer_new ==
    /\ buf \in Inputs
    /\ cursor = 0
    /\ tokens = <<>>
    /\ last_error = "None"
    /\ lex_pc = "lex"
    /\ lex_result = LangResult("None", <<>>, "None")
    /\ oob = FALSE

\* the condition of the loop of _lex
LoopCond == lex_pc = "lex" /\ not_exhausted(cursor) /\ last_error = "None"

\* the state a scanner called by _lex leaves behind; _lex read the byte
\* under the cursor before it chose the scanner
AfterScan(r) ==
    /\ cursor' = r.cursor
    /\ tokens' = tokens \o r.tok
    /\ last_error' = r.err
    /\ oob' = (oob \/ exhausted(cursor) \/ r.oob)
    /\ UNCHANGED <<buf, lex_pc, lex_result>>
    /\ UNCHANGED <<core, last, hist, lin, race, snap_config, locks>>

\* one iteration of the loop of _lex, by the arm of the match it takes
lex_ident ==
    /\ LoopCond
    /\ is_ascii_alphabetic(buf[cursor + 1])
    /\ AfterScan(scan_ident_or_keyword(cursor))

lex_number ==
    /\ LoopCond
    /\ ~is_ascii_alphabetic(buf[cursor + 1])
    /\ is_ascii_digit(buf[cursor + 1])
    /\ AfterScan(scan_number(cursor))

lex_space ==
    /\ LoopCond
    /\ buf[cursor + 1] = SPACE
    /\ AfterScan(Scanned(trim_ahead(cursor), <<>>, "None", FALSE))

lex_newline ==
    /\ LoopCond
    /\ buf[cursor + 1] \in {NEWLINE, TAB}
    /\ AfterScan(Scanned(cursor + 1, <<>>, "None", FALSE))

lex_quoted ==
    /\ LoopCond
    /\ buf[cursor + 1] \in {DQUOTE, SQUOTE}
    /\ \E g \in Garbage : AfterScan(scan_quoted_string(cursor, buf[cursor + 1], g))

lex_arbitrary ==
    /\ LoopCond
    /\ ~is_ascii_alphanumeric(buf[cursor + 1])
    /\ buf[cursor + 1] \notin {SPACE, NEWLINE, TAB, DQUOTE, SQUOTE}
    /\ AfterScan(scan_arbitrary_byte(cursor, buf[cursor + 1]))

\* the loop is over: _lex returns
lex_return ==
    /\ lex_pc = "lex"
    /\ ~(not_exhausted(cursor) /\ last_error = "None")
    /\ lex_pc' = "done"
    /\ lex_result' = IF last_error = "None"
                     THEN LangResult("Ok", tokens, "None")
                     ELSE LangResult("Err", <<>>, last_error)
    /\ UNCHANGED <<buf, cursor, tokens, last_error, oob>>
    /\ UNCHANGED <<core, last, hist, lin, race, snap_config, locks>>

InitLex == new_default /\ Start /\ race = RaceStart(APPS) /\ Lexer_new

NextLex ==
    \/ lex_ident
    \/ lex_number
    \/ lex_space
    \/ lex_newline
    \/ lex_quoted
    \/ lex_arbitrary
    \/ lex_return

SpecLex == InitLex /\ [][NextLex]_vars

\* the thread that called Lexer::lex keeps running
SpecLexFair == SpecLex /\ WF_vars(NextLex)

TypeOK ==
    /\ keyspaces \in [KsIds -> KsObjs \cup {None}]
    /\ tables \in [KsObjs -> [TblIds -> TblObjs \cup {None}]]
    /\ ks_strong \in [KsObjs -> Nat]
    /\ tbl_strong \in [TblObjs -> Nat]

\* ------------------------------------------------------------------ claims
\* the keyspace allocation o is an entry of the root store
KsPresent(o) == \E id \in KsIds : keyspaces[id] = o

\* the table allocation x is an entry of a keyspace of the root store
TblPresent(x) ==
    \E id \in KsIds, i \in TblIds :
        keyspaces[id] # None /\ tables[keyspaces[id]][i] = x

\* C1: the reference-count check and the removal of a drop are one step:
\* when drop_keyspace / drop_table returns Ok, no thread held a handle to the
\* entry at the instant of removal, none holds one afterwards, and every
\* handle a lookup hands out is to an entry that is in its map.
C1_DropIsAtomic ==
    [][\A t \in Threads :
         /\ \A id \in KsIds :
               ( /\ pc[t].op = "drop_keyspace" /\ pc[t].id = id
                 /\ drop_keyspace_remove(t)
                 /\ last'.val = "Ok" )
               => /\ keyspaces[id] # None
                  /\ KsHandles(keyspaces[id]) = 0
                  /\ \A u \in Threads : ks_held'[u][keyspaces[id]] = 0
                  /\ keyspaces'[id] = None
         /\ \A o \in KsObjs, id \in TblIds :
               ( /\ pc[t].op = "drop_table" /\ pc[t].ks = o /\ pc[t].id = id
                 /\ drop_table_remove(t)
                 /\ last'.val = "Ok" )
               => /\ tables[o][id] # None
                  /\ TblHandles(tables[o][id]) = 0
                  /\ \A u \in Threads : tbl_held'[u][tables[o][id]] = 0
                  /\ tables'[o][id] = None
         /\ \A o \in KsObjs :
               ks_held'[t][o] > ks_held[t][o] => KsPresent(o)'
         /\ \A x \in TblObjs :
               tbl_held'[t][x] > tbl_held[t][x] => TblPresent(x)'
      ]_vars

\* a drop_table returned Ok while another thread is between the contains_key
\* and the true_remove_if of its own drop_table
C1_Witness ==
    /\ last = Ret("drop_table", "Ok")
    /\ \E t \in Threads : pc[t].op = "drop_table"

\* C2: while a handle to an existing table other than `default` is held,
\* drop_table on it gets past contains_key, returns StillInUse and leaves the
\* tables alone, and no step takes the table out of a keyspace that lives on.
C2_HeldTableStays ==
    [][\A t \in Threads :
         /\ \A o \in KsObjs, id \in TblIds :
               ( /\ drop_table_check(t, o, id)
                 /\ id # DEFAULT
                 /\ tables[o][id] # None
                 /\ TblHandles(tables[o][id]) > 0 )
               => last' = Ret("drop_table", "pending") /\ tables' = tables
         /\ ( /\ drop_table_remove(t)
              /\ tables[pc[t].ks][pc[t].id] # None
              /\ TblHandles(tables[pc[t].ks][pc[t].id]) > 0 )
            => /\ last' = Ret("drop_table", "StillInUse")
               /\ tables' = tables
               /\ tbl_strong' = tbl_strong
         /\ \A o \in KsObjs, id \in TblIds :
               ( /\ tables[o][id] # None
                 /\ TblHandles(tables[o][id]) > 0
                 /\ ks_strong'[o] > 0 )
               => tables'[o][id] = tables[o][id]
      ]_vars

\* drop_table returned StillInUse on a table that a thread holds a handle to
C2_Witness ==
    /\ last = Ret("drop_table", "StillInUse")
    /\ \E id \in KsIds :
          /\ keyspaces[id] # None
          /\ tables[keyspaces[id]][APPS] # None
          /\ TblHandles(tables[keyspaces[id]][APPS]) > 0

\* C3: drop_table on an existing table other than `default` that no thread
\* holds a handle to gets past contains_key, returns Ok and removes the
\* entry, and a lookup of an absent table returns None.
C3_UnheldTableDrops ==
    [][\A t \in Threads :
         /\ \A o \in KsObjs, id \in TblIds :
               ( /\ drop_table_check(t, o, id)
                 /\ id # DEFAULT
                 /\ tables[o][id] # None )
               => last' = Ret("drop_table", "pending")
         /\ ( /\ drop_table_remove(t)
              /\ tables[pc[t].ks][pc[t].id] # None
              /\ TblHandles(tables[pc[t].ks][pc[t].id]) = 0 )
            => /\ last' = Ret("drop_table", "Ok")
               /\ tables'[pc[t].ks][pc[t].id] = None
         /\ \A o \in KsObjs, id \in TblIds :
               (get_table_atomic_ref(t, o, id) /\ tables[o][id] = None)
               => last' = Ret("get_table_atomic_ref", "None") /\ tbl_held' = tbl_held
      ]_vars

\* drop_table returned Ok: the table `apps` is gone from the keyspace the
\* caller still holds
C3_Witness ==
    /\ last = Ret("drop_table", "Ok")
    /\ \E t \in Threads, o \in KsObjs :
          ks_held[t][o] > 0 /\ tables[o][APPS] = None /\ ~tbl_live[o][APPS]

\* C4: whenever a thread holds a handle to a keyspace or to a table, that
\* object is an entry of the hierarchy.
C4_HeldObjectsPresent ==
    /\ \A o \in KsObjs : KsHandles(o) > 0 => KsPresent(o)
    /\ \A x \in TblObjs : TblHandles(x) > 0 => TblPresent(x)

\* C5: the calls on one identifier are linearizable: at every moment some
\* sequential execution of the calls made so far, in an order that respects
\* real time, returns the values the calls returned.
C5_Linearizable == lin # {}

\* C6: create_keyspace returns true exactly when no keyspace of that name
\* exists, never while an earlier true has not been followed by a drop that
\* returned Ok, and a call that returns false leaves keyspaces, tables,
\* reference counts and handles as they were; the same for create_table.
C6_CreateIffAbsent ==
    [][\A t \in Threads :
         /\ \A id \in KsIds :
               create_keyspace(t, id) =>
                  /\ (last'.val = "true") <=> (keyspaces[id] = None)
                  /\ last'.val = "true" => ~ks_live[id] /\ keyspaces'[id] # None
                  /\ last'.val = "false" =>
                        UNCHANGED <<keyspaces, tables, ks_strong, tbl_strong,
                                    ks_held, tbl_held>>
         /\ \A o \in KsObjs, id \in TblIds :
               create_table(t, o, id) =>
                  /\ (last'.val = "true") <=> (tables[o][id] = None)
                  /\ last'.val = "true" => ~tbl_live[o][id] /\ tables'[o][id] # None
                  /\ last'.val = "false" =>
                        UNCHANGED <<keyspaces, tables, ks_strong, tbl_strong,
                                    ks_held, tbl_held>>
      ]_vars

\* create_keyspace returned false on a keyspace that holds a table and that
\* a thread holds a handle to
C6_Witness ==
    /\ last = Ret("create_keyspace", "false")
    /\ keyspaces[APPS] # None
    /\ tables[keyspaces[APPS]][APPS] # None
    /\ KsHandles(keyspaces[APPS]) > 0

\* C7: when the threads race to create one absent name and nobody drops,
\* exactly one create_keyspace returns true and all the others false, the
\* name maps to the one keyspace the winner inserted, no second keyspace
\* allocation exists for it, and every handle a lookup gave out is to it.
C7_OneCreateWins ==
    LET n == SumOver(race.calls, Threads) IN
    /\ n = 0 => keyspaces[race.id] = None
    /\ n >= 1 => /\ race.wins = 1
                 /\ race.losses = n - 1
                 /\ race.obj # None
                 /\ keyspaces[race.id] = race.obj
    /\ Cardinality({o \in KsObjs : ks_strong[o] > 0})
         = Cardinality({id \in KsIds : keyspaces[id] # None})
    /\ \A t \in Threads, o \in KsObjs : ks_held[t][o] > 0 => o = race.obj

\* every thread has made all its create calls and every thread holds a
\* handle from a lookup
C7_Witness ==
    /\ \A t \in Threads : race.calls[t] = MaxCalls
    /\ race.obj # None
    /\ \A t \in Threads : ks_held[t][race.obj] > 0

\* C8: drop_keyspace / drop_table of a name other than the protected ones
\* that was never created, or was dropped with Ok since its last create,
\* returns ObjectNotFound and changes nothing.
C8_DropAbsentNotFound ==
    [][\A t \in Threads :
         /\ \A id \in KsIds \ {DEFAULT, SYSTEM} :
               (drop_keyspace_check(t, id) /\ ~ks_live[id]) =>
                  /\ last' = Ret("drop_keyspace", "ObjectNotFound")
                  /\ UNCHANGED core
         /\ \A o \in KsObjs, id \in TblIds \ {DEFAULT} :
               (drop_table_check(t, o, id) /\ ~tbl_live[o][id]) =>
                  /\ last' = Ret("drop_table", "ObjectNotFound")
                  /\ UNCHANGED core
      ]_vars

\* drop_keyspace returned ObjectNotFound for `apps`, the one name that is
\* not protected, while no create of it is outstanding
C8_Witness ==
    /\ last = Ret("drop_keyspace", "ObjectNotFound")
    /\ ~ks_live[APPS]
    /\ keyspaces[APPS] = None

\* C9: drop_keyspace("default") and drop_keyspace("system") return
\* ProtectedObject in every state of the store and leave it unchanged.
C9_ProtectedKeyspace ==
    [][\A t \in Threads, id \in {DEFAULT, SYSTEM} :
         drop_keyspace_check(t, id) =>
            /\ last' = Ret("drop_keyspace", "ProtectedObject")
            /\ UNCHANGED core
      ]_vars

\* drop_keyspace returned ProtectedObject in a store (built by new_empty)
\* where `system` does not exist and a handle to `default` is held
C9_Witness ==
    /\ last = Ret("drop_keyspace", "ProtectedObject")
    /\ keyspaces[SYSTEM] = None
    /\ keyspaces[DEFAULT] # None
    /\ KsHandles(keyspaces[DEFAULT]) > 0

\* C10: drop_table("default") returns ProtectedObject on every keyspace in
\* every state, also where the table does not exist and where handles are
\* held, and leaves the keyspace unchanged.
C10_ProtectedTable ==
    [][\A t \in Threads, o \in KsObjs :
         drop_table_check(t, o, DEFAULT) =>
            /\ last' = Ret("drop_table", "ProtectedObject")
            /\ UNCHANGED core
      ]_vars

\* drop_table returned ProtectedObject and every keyspace a thread holds
\* was built by Keyspace::empty and has no table `default`
C10_Witness ==
    /\ last = Ret("drop_table", "ProtectedObject")
    /\ \A t \in Threads, o \in KsObjs :
          ks_held[t][o] > 0 => tables[o][DEFAULT] = None

\* C11: in a store built by new_default the keyspaces `default` and `system`
\* are entries of the root store in every reachable state, and they are the
\* allocations the constructor made.
C11_ReservedKeyspacesStay ==
    /\ keyspaces[DEFAULT] = 1 /\ ks_strong[1] >= 1
    /\ keyspaces[SYSTEM] = 2 /\ ks_strong[2] >= 1

\* a drop of a reserved keyspace was just turned down, after `apps` was
\* created, while nobody holds a handle to a reserved keyspace
C11_Witness ==
    /\ last = Ret("drop_keyspace", "ProtectedObject")
    /\ keyspaces[APPS] # None
    /\ KsHandles(1) = 0 /\ KsHandles(2) = 0

\* C12: a table named `default` exists only in the keyspace that
\* Keyspace::empty_default built (the keyspace `default` of new_default).
C12_DefaultTableOnlyInDefault ==
    \A o \in KsObjs : tables[o][DEFAULT] # None => o = keyspaces[DEFAULT]

\* C13: the table `default` of the keyspace built by Keyspace::empty_default
\* stays in it, whatever create_table, get_table_atomic_ref, drop_table and
\* force_remove_table calls are made.
C13_DefaultTableStays == tables[keyspaces[DEFAULT]][DEFAULT] # None

\* C14: the store that new_default returns holds exactly the keyspaces
\* `default` and `system`, `default` holds exactly the table `default`,
\* `system` holds no table, and snap_config is None.
C14_NewDefault ==
    last = Ret("init", "") =>
       /\ {id \in KsIds : keyspaces[id] # None} = {DEFAULT, SYSTEM}
       /\ keyspaces[DEFAULT] # keyspaces[SYSTEM]
       /\ {i \in TblIds : tables[keyspaces[DEFAULT]][i] # None} = {DEFAULT}
       /\ {i \in TblIds : tables[keyspaces[SYSTEM]][i] # None} = {}
       /\ Cardinality({o \in KsObjs : ks_strong[o] > 0}) = 2
       /\ Cardinality({x \in TblObjs : tbl_strong[x] > 0}) = 1
       /\ snap_config = "None"

\* the store as the constructor returned it: no call made yet
C14_Witness ==
    /\ last = Ret("init", "")
    /\ keyspaces[DEFAULT] # None
    /\ \A t \in Threads : pc[t] = Idle /\ KsHeldBy(t) = 0

\* C15: a create, lookup or drop call never waits and never retries: a thread
\* is only ever inside the second step of a drop, that step can be taken in
\* every state whatever the other threads hold, it ends the call with Ok or
\* StillInUse after the one removal attempt, every other call is a single
\* step, no step touches an advisory lock, and a thread that keeps running
\* is out of its call again.
C15_CallsComplete ==
    /\ [](\A t \in Threads :
             /\ pc[t].op \in {"idle", "drop_keyspace", "drop_table"}
             /\ pc[t] # Idle => ENABLED InCall(t))
    /\ [][\A t \in Threads :
            /\ InCall(t) => /\ pc'[t] = Idle
                            /\ last'.val \in {"Ok", "StillInUse"}
            /\ pc'[t] # pc[t] => (pc[t] = Idle \/ pc'[t] = Idle)
            /\ UNCHANGED locks
         ]_vars
    /\ \A t \in Threads : (pc[t] # Idle) ~> (pc[t] = Idle)

\* drop_keyspace met a held handle and returned StillInUse: the caller is out
\* of the call while the other thread still holds the handle
C15_Witness ==
    /\ last = Ret("drop_keyspace", "StillInUse")
    /\ \A t \in Threads : pc[t] = Idle
    /\ keyspaces[APPS] # None
    /\ KsHandles(keyspaces[APPS]) > 0

\* C16: no lost update: from the create that returned true until a drop
\* returns Ok or force_remove_table runs, the name maps to the object that
\* create inserted, whatever is done to other names, and every lookup of it
\* returns Some with a handle to that object.
C16_NoLostUpdate ==
    [][/\ \A id \in KsIds :
            /\ ks_live'[id] => keyspaces'[id] # None
            /\ (ks_live[id] /\ ks_live'[id]) => keyspaces'[id] = keyspaces[id]
            /\ \A t \in Threads :
                  ( /\ ks_live[id]
                    /\ last'.op = "get_keyspace_atomic_ref"
                    /\ get_keyspace_atomic_ref(t, id) ) =>
                     /\ last' = Ret("get_keyspace_atomic_ref", "Some")
                     /\ ks_held'[t][keyspaces[id]] = ks_held[t][keyspaces[id]] + 1
       /\ \A o \in KsObjs, id \in TblIds :
            /\ tbl_live'[o][id] => tables'[o][id] # None
            /\ (tbl_live[o][id] /\ tbl_live'[o][id]) => tables'[o][id] = tables[o][id]
            /\ \A t \in Threads :
                  ( /\ tbl_live[o][id]
                    /\ last'.op = "get_table_atomic_ref"
                    /\ get_table_atomic_ref(t, o, id) ) =>
                     /\ last' = Ret("get_table_atomic_ref", "Some")
                     /\ tbl_held'[t][tables[o][id]] = tbl_held[t][tables[o][id]] + 1
      ]_vars

\* a lookup of the table `apps` returned Some while the other thread is in
\* the middle of dropping a table and the keyspace `apps` exists
C16_Witness ==
    /\ last = Ret("get_table_atomic_ref", "Some")
    /\ \E t \in Threads, o \in KsObjs :
          /\ tables[o][APPS] # None
          /\ tbl_held[t][tables[o][APPS]] = 1
          /\ \E u \in Threads \ {t} : pc[u].op = "drop_table"
    /\ keyspaces[APPS] # None

\* C17: each advisory lock is binary and exclusive: at most one thread holds
\* the guard of a lock, the lock is held exactly while a guard of it exists,
\* a keyspace slot that is free has a free lock, and a thread inside
\* lock_partmap / the preload lock call gets the guard only in a state where
\* no thread holds it.
C17_LocksExclusive ==
    /\ [](/\ \A o \in KsObjs :
               /\ Cardinality({t \in Threads : partmap_guard[t][o]}) <= 1
               /\ partmap_lock[o] <=> (\E t \in Threads : partmap_guard[t][o])
               /\ ks_strong[o] = 0 => partmap_lock[o] = QuickLock_new
          /\ Cardinality({t \in Threads : preload_guard[t]}) <= 1
          /\ preload_lock <=> (\E t \in Threads : preload_guard[t]))
    /\ [][\A t \in Threads :
            /\ (pc[t].op = "lock_partmap" /\ pc'[t] = Idle) =>
                  /\ \A u \in Threads : ~partmap_guard[u][pc[t].ks]
                  /\ partmap_guard'[t][pc[t].ks]
            /\ (pc[t].op = "lock_preload" /\ pc'[t] = Idle) =>
                  /\ \A u \in Threads : ~preload_guard[u]
                  /\ preload_guard'[t]
         ]_vars

\* a thread is blocked in lock_partmap on a keyspace whose guard another
\* thread holds, and that thread holds the preload guard as well
C17_Witness ==
    \E t \in Threads, u \in Threads :
       /\ t # u
       /\ pc[t].op = "lock_partmap"
       /\ partmap_guard[u][pc[t].ks]
       /\ preload_guard[u]

\* C18: drop_keyspace / drop_table returns StillInUse only when, at the
\* removal attempt, the entry exists and a thread holds a handle to it.
C18_StillInUseOnlyIfHeld ==
    [][\A t \in Threads :
         /\ \A id \in KsIds :
               ( /\ pc[t].op = "drop_keyspace" /\ pc[t].id = id
                 /\ drop_keyspace_remove(t)
                 /\ last'.val = "StillInUse" )
               => /\ keyspaces[id] # None
                  /\ \E u \in Threads : ks_held[u][keyspaces[id]] > 0
         /\ \A o \in KsObjs, id \in TblIds :
               ( /\ pc[t].op = "drop_table" /\ pc[t].ks = o /\ pc[t].id = id
                 /\ drop_table_remove(t)
                 /\ last'.val = "StillInUse" )
               => /\ tables[o][id] # None
                  /\ \E u \in Threads : tbl_held[u][tables[o][id]] > 0
      ]_vars

\* C19: for every entry of the root store and of a keyspace, the strong
\* count is 1 plus the number of handles threads hold, hence never 0, and
\* it is 1 exactly when nobody holds a handle.
C19_RefCount ==
    /\ \A id \in KsIds :
          keyspaces[id] # None =>
             /\ ks_strong[keyspaces[id]] = 1 + KsHandles(keyspaces[id])
             /\ ks_strong[keyspaces[id]] > 0
             /\ (ks_strong[keyspaces[id]] = 1) <=>
                   (\A t \in Threads : ks_held[t][keyspaces[id]] = 0)
    /\ \A o \in KsObjs, i \in TblIds :
          tables[o][i] # None =>
             /\ tbl_strong[tables[o][i]] = 1 + TblHandles(tables[o][i])
             /\ tbl_strong[tables[o][i]] > 0
             /\ (tbl_strong[tables[o][i]] = 1) <=>
                   (\A t \in Threads : tbl_held[t][tables[o][i]] = 0)

\* every thread holds a handle to the same table and to the same keyspace:
\* the counts stand at 1 + NumThreads
C19_Witness ==
    \E o \in KsObjs :
       /\ KsPresent(o)
       /\ tables[o][APPS] # None
       /\ \A t \in Threads : ks_held[t][o] = 1 /\ tbl_held[t][tables[o][APPS]] = 1
       /\ ks_strong[o] = 1 + NumThreads
       /\ tbl_strong[tables[o][APPS]] = 1 + NumThreads

\* C20: frame: a create, lookup or drop touches at most the entry of the
\* name it is called with (and the counts of the object behind it); a create
\* that returns false, a lookup that returns None and a drop that does not
\* return Ok leave keyspaces, tables, counts and handles as they were, and a
\* lookup that returns Some adds exactly the one handle.
C20_Frame ==
    [][\A t \in Threads :
         /\ \A id \in KsIds :
              /\ ( last'.op = "get_keyspace_atomic_ref"
                   /\ get_keyspace_atomic_ref(t, id) ) =>
                    /\ UNCHANGED <<keyspaces, tables, tbl_strong, tbl_held>>
                    /\ IF last'.val = "Some"
                       THEN /\ ks_strong' = [ks_strong EXCEPT ![keyspaces[id]] = @ + 1]
                            /\ ks_held' = [ks_held EXCEPT ![t][keyspaces[id]] = @ + 1]
                       ELSE UNCHANGED <<ks_strong, ks_held>>
              /\ ( last'.op = "create_keyspace" /\ create_keyspace(t, id) ) =>
                    /\ \A j \in KsIds \ {id} : keyspaces'[j] = keyspaces[j]
                    /\ UNCHANGED <<tables, tbl_strong, ks_held, tbl_held>>
                    /\ \A o \in KsObjs \ {keyspaces'[id]} : ks_strong'[o] = ks_strong[o]
                    /\ last'.val = "false" => UNCHANGED <<keyspaces, ks_strong>>
              /\ ( last'.op = "drop_keyspace" /\ drop_keyspace_check(t, id) ) =>
                    UNCHANGED <<keyspaces, tables, ks_strong, tbl_strong,
                                ks_held, tbl_held>>
              /\ ( /\ pc[t].op = "drop_keyspace" /\ pc[t].id = id
                   /\ drop_keyspace_remove(t) ) =>
                    /\ \A j \in KsIds \ {id} : keyspaces'[j] = keyspaces[j]
                    /\ UNCHANGED <<ks_held, tbl_held>>
                    /\ \A o \in KsObjs \ {keyspaces[id]} :
                          /\ ks_strong'[o] = ks_strong[o]
                          /\ tables'[o] = tables[o]
                          /\ \A i \in TblIds :
                                tables[o][i] # None =>
                                   tbl_strong'[tables[o][i]] = tbl_strong[tables[o][i]]
                    /\ last'.val # "Ok" =>
                          UNCHANGED <<keyspaces, tables, ks_strong, tbl_strong>>
         /\ \A o \in KsObjs, id \in TblIds :
              /\ ( last'.op = "get_table_atomic_ref"
                   /\ get_table_atomic_ref(t, o, id) ) =>
                    /\ UNCHANGED <<keyspaces, tables, ks_strong, ks_held>>
                    /\ IF last'.val = "Some"
                       THEN /\ tbl_strong' = [tbl_strong EXCEPT ![tables[o][id]] = @ + 1]
                            /\ tbl_held' = [tbl_held EXCEPT ![t][tables[o][id]] = @ + 1]
                       ELSE UNCHANGED <<tbl_strong, tbl_held>>
              /\ ( last'.op = "create_table" /\ create_table(t, o, id) ) =>
                    /\ UNCHANGED <<keyspaces, ks_strong, ks_held, tbl_held>>
                    /\ \A p \in KsObjs \ {o} : tables'[p] = tables[p]
                    /\ \A j \in TblIds \ {id} : tables'[o][j] = tables[o][j]
                    /\ \A x \in TblObjs \ {tables'[o][id]} : tbl_strong'[x] = tbl_strong[x]
                    /\ last'.val = "false" => UNCHANGED <<tables, tbl_strong>>
              /\ ( last'.op = "drop_table" /\ drop_table_check(t, o, id) ) =>
                    UNCHANGED <<keyspaces, tables, ks_strong, tbl_strong,
                                ks_held, tbl_held>>
              /\ ( /\ pc[t].op = "drop_table" /\ pc[t].ks = o /\ pc[t].id = id
                   /\ drop_table_remove(t) ) =>
                    /\ UNCHANGED <<keyspaces, ks_strong, ks_held, tbl_held>>
                    /\ \A p \in KsObjs \ {o} : tables'[p] = tables[p]
                    /\ \A j \in TblIds \ {id} : tables'[o][j] = tables[o][j]
                    /\ \A x \in TblObjs \ {tables[o][id]} : tbl_strong'[x] = tbl_strong[x]
                    /\ last'.val # "Ok" => UNCHANGED <<tables, tbl_strong>>
      ]_vars

\* drop_table returned StillInUse on the table `apps` of a keyspace that
\* also holds the table `default`, while the keyspace `apps` exists
C20_Witness ==
    /\ last = Ret("drop_table", "StillInUse")
    /\ keyspaces[APPS] # None
    /\ \E o \in KsObjs :
          /\ tables[o][APPS] # None /\ tables[o][DEFAULT] # None
          /\ TblHandles(tables[o][APPS]) > 0

C22_LocksIndependent ==
    /\ [](\A t \in Threads :
            (\E u \in Threads \ {t}, p \in KsObjs : partmap_guard[u][p]) =>
               /\ \A id \in KsIds :
                     /\ ENABLED drop_keyspace_check(t, id) <=> pc[t] = Idle
                     /\ ENABLED create_keyspace(t, id) <=>
                           (pc[t] = Idle /\ (keyspaces[id] = None => FreeKs # {}))
                     /\ ENABLED get_keyspace_atomic_ref(t, id) <=>
                           (pc[t] = Idle /\ KsHeldBy(t) < MaxKsHeld)
               /\ \A o \in KsObjs, id \in TblIds :
                     /\ ENABLED drop_table_check(t, o, id) <=>
                           (pc[t] = Idle /\ ks_held[t][o] > 0)
                     /\ ENABLED force_remove_table(t, o, id) <=>
                           (pc[t] = Idle /\ ks_held[t][o] > 0)
                     /\ ENABLED create_table(t, o, id) <=>
                           ( /\ pc[t] = Idle /\ ks_held[t][o] > 0
                             /\ (tables[o][id] = None => FreeTbl # {}) )
                     /\ ENABLED get_table_atomic_ref(t, o, id) <=>
                           ( /\ pc[t] = Idle /\ ks_held[t][o] > 0
                             /\ TblHeldBy(t) < MaxTblHeld )
               /\ pc[t].op = "drop_keyspace" => ENABLED drop_keyspace_remove(t)
               /\ pc[t].op = "drop_table" => ENABLED drop_table_remove(t)
               /\ pc[t].op = "lock_partmap" =>
                     (ENABLED lock_partmap_acquire(t) <=> ~partmap_lock[pc[t].ks]))
    /\ [][/\ last'.op \notin {"lock_partmap", "drop_partmap_guard"} =>
               UNCHANGED locks
          /\ last'.op \in {"lock_partmap", "drop_partmap_guard"} =>
               UNCHANGED <<keyspaces, tables, ks_strong, tbl_strong,
                           ks_held, tbl_held, hist>>
          /\ \A t \in Threads :
               /\ \A id \in KsIds :
                     ( /\ pc[t].op = "drop_keyspace" /\ pc[t].id = id
                       /\ drop_keyspace_remove(t) ) =>
                        last'.val = IF keyspaces[id] # None /\ ks_strong[keyspaces[id]] = 1
                                    THEN "Ok" ELSE "StillInUse"
               /\ \A o \in KsObjs, id \in TblIds :
                     ( /\ pc[t].op = "drop_table" /\ pc[t].ks = o /\ pc[t].id = id
                       /\ drop_table_remove(t) ) =>
                        last'.val = IF tables[o][id] # None /\ tbl_strong[tables[o][id]] = 1
                                    THEN "Ok" ELSE "StillInUse"
         ]_vars

\* drop_table returned Ok on a keyspace whose partmap lock is held by a
\* thread that is itself blocked for good in a second lock_partmap on it
C22_Witness ==
    /\ last = Ret("drop_table", "Ok")
    /\ \E t \in Threads, u \in Threads, o \in KsObjs :
          /\ t # u
          /\ partmap_guard[u][o]
          /\ pc[u].op = "lock_partmap" /\ pc[u].ks = o
          /\ ks_held[t][o] > 0
          /\ tables[o][APPS] = None /\ ~tbl_live[o][APPS]

\* C23: Lexer::lex never reads the byte under a cursor that is at or past
\* end_ptr, whatever the input.
C23_DerefInBounds == ~oob

\* the input is two digit runs with one space between them
TwoDigitRuns(i) ==
    /\ 1 < i /\ i < Len(buf)
    /\ buf[i] = SPACE
    /\ \A j \in (1..Len(buf)) \ {i} : is_ascii_digit(buf[j])

\* C24: peek_eq_or_eof_and_forward moves the cursor by one byte when the
\* byte under it is the one asked for and by none otherwise, the cursor is
\* never past end_ptr, and two digit runs with one space between them are
\* lexed as two Number tokens, the first run's and then the second's.
C24_ForwardsOneByte ==
    /\ [][lex_number =>
            LET stop == digit_run(cursor)
            IN  /\ peek_eq_or_eof_and_forward(stop, SPACE).cursor =
                      stop + (IF peek_eq(stop, SPACE) THEN 1 ELSE 0)
                /\ cursor' \in {stop, stop + 1}
                /\ cursor' <= end_ptr
         ]_vars
    /\ [](\A i \in 1..Len(buf) :
             (lex_pc = "done" /\ TwoDigitRuns(i)) =>
                lex_result =
                   LangResult("Ok",
                              <<Token("Number", parse_u64(SubSeq(buf, 1, i - 1)).val, ""),
                                Token("Number", parse_u64(SubSeq(buf, i + 1, Len(buf))).val, "")>>,
                              "None"))

\* C25: Lexer::lex returns on every input.  An iteration of the loop of
\* _lex moves the cursor forward by at least one byte or sets last_error;
\* once last_error is set the next step is the return; _lex returns only at
\* the end of the input or after an error, with Err(e) for the error that
\* was set and Ok(tokens) when none was.
C25_LexTerminates ==
    /\ [][/\ (lex_pc = "lex" /\ lex_pc' = "lex") =>
               \/ cursor' >= cursor + 1
               \/ last_error = "None" /\ last_error' # "None"
          /\ (lex_pc = "lex" /\ last_error # "None") =>
               lex_pc' = "done" /\ last_error' = last_error
          /\ (lex_pc = "lex" /\ lex_pc' = "done") =>
               /\ exhausted(cursor) \/ last_error # "None"
               /\ lex_result' = IF last_error = "None"
                                THEN LangResult("Ok", tokens, "None")
                                ELSE LangResult("Err", <<>>, last_error)
         ]_vars
    /\ (lex_pc = "lex") ~> (lex_pc = "done")

\* lex returned the error of an unexpected byte met after a token, with
\* input left over
C25_Witness ==
    /\ lex_pc = "done"
    /\ lex_result = LangResult("Err", <<>>, "UnexpectedChar")
    /\ Len(tokens) > 0
    /\ cursor + 1 < end_ptr
====
